---- MODULE Spec2Model ----
(***************************************************************************)
(* SensorDashboard: the Home component of src/app/page.tsx.                *)
(*                                                                         *)
(* page.tsx holds two revisions of the component.  Revision "A" is lines   *)
(* 139-335 (5 s poll, de-duplicating append), revision "B" is lines        *)
(* 397-644 (30 s poll, unconditional append).  The variable `variant`      *)
(* says which revision is running; it never changes.  A third revision,    *)
(* "C", adds a warning feed; its source is not part of src/ and its        *)
(* tracker is modelled after the specification.                            *)
(*                                                                         *)
(* A timestamp string is modelled as the instant it denotes together with  *)
(* its spelling: "iso" is the spelling Date.prototype.toISOString()        *)
(* produces (2024-01-01T00:00:00.000Z), "alt" is any other spelling that   *)
(* new Date() parses to the same instant (2024-01-01T00:00:00Z,            *)
(* 2024-01-01T01:00:00+01:00, ...).  Two strings are === exactly when      *)
(* both the instant and the spelling agree.                                *)
(***************************************************************************)
EXTENDS Integers, Sequences, FiniteSets, TLC

VARIABLES
    variant,      \* "A" | "B": which revision of Home is running
    phase,        \* "init" (rendered, effect not yet run) | "mounted" | "unmounted"
    timer,        \* TRUE while the setInterval(fetchData, ...) timer is live
    sensorData,   \* Record<string, SensorReading[]>: function from a set of sensor ids
    loading,      \* useState(true)
    error,        \* useState<string | null>(null)
    inFetch,      \* fetchData calls suspended at `await fetch(...)`
    inJson,       \* fetchData calls suspended at `await response.json()`
    started,      \* history: fetchData calls made so far
    completed,    \* history: fetchData calls that ran to their finally block
    lastOutcome,  \* history: "none" | "ok" | "fail", how the last completed call ended
    lastBatch,    \* history: the decoded array of the last successful call
    prevData,     \* history: sensorData as it was before the last completed call
    unmountedAt,  \* history: value of `completed` when the view was unmounted, -1 before
    raced,        \* history: 1 once a response was applied while another request was
                  \* in flight, 2 once the next response was applied after it, else 0
    warnings,     \* the warning feed: sequence of Warning, oldest first
    now,          \* the wall clock, in ms since the view was created
    warnPolls,    \* history: poll cycles the warning tracker has evaluated
    lastReadings, \* history: the response array of the last evaluated poll cycle
    lastEmitted,  \* history: the warnings that poll cycle emitted
    clockSteps,   \* history: clock advances so far
    colorValue,   \* argument `value` of getStatusColor
    colorType,    \* argument `type` of getStatusColor
    colorResult   \* what getStatusColor returned, "none" before the call

pollerVars == <<variant, phase, timer, sensorData, loading, error, inFetch, inJson,
                started, completed, lastOutcome, lastBatch, prevData, unmountedAt,
                raced>>
warnVars == <<warnings, now, warnPolls, lastReadings, lastEmitted, clockSteps>>
colorVars == <<colorValue, colorType, colorResult>>

vars == <<pollerVars, warnVars, colorVars>>

-----------------------------------------------------------------------------
(* Bounds of the model *)

MaxBatch == 1        \* length of the freely chosen response arrays
MaxPolls == 2        \* fetchData calls in one run
MaxInflight == 2     \* fetchData calls outstanding at once

(* Program constants *)

HistoryCap == 100    \* .slice(-100)

Null == "null"

Sensors == {"sensor1", "sensor2"}
Instants == {1, 2}
Spellings == {"iso", "alt"}
Timestamps == [inst : Instants, spelling : Spellings]
Readings == [sensor_id : Sensors, timestamp : Timestamps]

Variants == {"A", "B"}

-----------------------------------------------------------------------------
(* Pure helpers *)

\* new Date(ts).toISOString(): same instant, canonical spelling
toISOString(ts) == [inst |-> ts.inst, spelling |-> "iso"]

\* slice without the cut: the array is returned whole
slice_noCut(arr, n) == arr

\* slice(0, n) instead of slice(-n): the first n elements are kept
slice_keepsOldest(arr, n) ==
    IF Len(arr) <= n THEN arr ELSE SubSeq(arr, 1, n)

\* arr.slice(-n): the last n elements, or all of them when there are fewer
slice(arr, n) ==
    IF Len(arr) <= n THEN arr ELSE SubSeq(arr, Len(arr) - n + 1, Len(arr))

\* { ...reading, timestamp: new Date(reading.timestamp).toISOString() }
normalise(reading) == [reading EXCEPT !.timestamp = toISOString(reading.timestamp)]

\* const updated = {} instead of { ...prev }: the other sensors' keys are not copied
ensureKey_dropsOthers(updated, id) ==
    [s \in {id} |-> IF id \in DOMAIN updated THEN updated[id] ELSE <<>>]

\* if (!updated[id]) updated[id] = [];   (an existing array, even empty, is truthy)
ensureKey(updated, id) ==
    IF id \in DOMAIN updated
        THEN updated
        ELSE [s \in DOMAIN updated \cup {id} |-> IF s = id THEN <<>> ELSE updated[s]]

\* the test written lastReading && ...: a sensor seen for the first time is skipped
shouldAppend_requiresLast(seq, reading) ==
    /\ seq # <<>>
    /\ seq[Len(seq)].timestamp # reading.timestamp

\* revision A's test: !lastReading || lastReading.timestamp !== reading.timestamp
\* (the stored, normalised string against the incoming raw string)
shouldAppend(seq, reading) ==
    \/ seq = <<>>
    \/ seq[Len(seq)].timestamp # reading.timestamp

\* body of data.forEach in revision A (page.tsx 155-162)
appendReadingA(updated, reading) ==
    LET u == ensureKey(updated, reading.sensor_id)
        seq == u[reading.sensor_id]
    IN  IF shouldAppend(seq, reading)
            THEN [u EXCEPT ![reading.sensor_id] =
                        slice(Append(seq, normalise(reading)), HistoryCap)]
            ELSE u

\* body of data.forEach in revision B (page.tsx 423-432)
appendReadingB(updated, reading) ==
    LET u == ensureKey(updated, reading.sensor_id)
        seq == u[reading.sensor_id]
    IN  [u EXCEPT ![reading.sensor_id] =
             slice(Append(seq, normalise(reading)), HistoryCap)]

appendReading(updated, reading, v) ==
    IF v = "A" THEN appendReadingA(updated, reading)
               ELSE appendReadingB(updated, reading)

\* data.forEach(...) over data[lo..hi], first to last: the first half of the range
\* is applied, then the second half to its result.  The binder over the
\* one-element set makes the intermediate map a value before the second half
\* is visited, which keeps the evaluation shallow for long arrays.
RECURSIVE applyRange(_, _, _, _, _)
applyRange(prev, data, lo, hi, v) ==
    IF lo > hi THEN prev
    ELSE IF lo = hi THEN appendReading(prev, data[lo], v)
    ELSE LET mid == (lo + hi) \div 2
         IN  CHOOSE out \in {applyRange(updated, data, mid + 1, hi, v) :
                                updated \in {applyRange(prev, data, lo, mid, v)}} : TRUE

\* the updater passed to setSensorData
applyBatch(prev, data, v) == applyRange(prev, data, 1, Len(data), v)

-----------------------------------------------------------------------------
(* What the endpoint can answer *)

\* response arrays of up to MaxBatch readings, any sensors, instants and spellings
RECURSIVE SeqsUpTo(_, _)
SeqsUpTo(S, n) ==
    IF n = 0
        THEN {<<>>}
        ELSE LET shorter == SeqsUpTo(S, n - 1)
             IN  shorter \cup {Append(q, x) : q \in {t \in shorter : Len(t) = n - 1}, x \in S}

ShortBatches == SeqsUpTo(Readings, MaxBatch)

\* one large response array: n readings of one sensor, no two neighbours at the
\* same instant, all in the canonical spelling
Burst(id, n) ==
    [i \in 1..n |-> [sensor_id |-> id,
                     timestamp |-> [inst |-> 1 + (i % 2), spelling |-> "iso"]]]

LongBatches == {Burst(id, n) : id \in Sensors, n \in {HistoryCap - 1, HistoryCap + 1}}

Batches == ShortBatches \cup LongBatches

\* response.status values with response.ok false
BadStatuses == {404, 500}

\* `HTTP error! status: ${response.status}`
HttpErrorMessage(status) ==
    IF status = 404 THEN "HTTP error! status: 404" ELSE "HTTP error! status: 500"

\* message of the TypeError fetch() rejects with when the request cannot be made
NetworkErrorMessage == "Failed to fetch"

\* message of the SyntaxError response.json() rejects with on an undecodable body
DecodeErrorMessage == "Unexpected token < in JSON at position 0"

-----------------------------------------------------------------------------
(* The component *)

\* useState initial values (page.tsx 140-142), before the effect has run
PollerIdle ==
    /\ phase = "init"
    /\ timer = FALSE
    /\ sensorData = <<>>
    /\ loading = TRUE
    /\ error = Null
    /\ inFetch = 0
    /\ inJson = 0
    /\ started = 0
    /\ completed = 0
    /\ lastOutcome = "none"
    /\ lastBatch = <<>>
    /\ prevData = <<>>
    /\ unmountedAt = -1
    /\ raced = 0

\* the warning tracker's and the classifier's variables at rest
WarnIdle ==
    /\ warnings = <<>>
    /\ now = 0
    /\ warnPolls = 0
    /\ lastReadings = <<>>
    /\ lastEmitted = <<>>
    /\ clockSteps = 0

ColorIdle ==
    /\ colorValue = 0
    /\ colorType = "none"
    /\ colorResult = "none"

\* either revision of the component
PollerInit == variant \in Variants /\ PollerIdle

Init == PollerInit /\ WarnIdle /\ ColorIdle

\* useEffect body: fetchData(); const interval = setInterval(fetchData, ...)
Mount ==
    /\ phase = "init"
    /\ phase' = "mounted"
    /\ timer' = TRUE
    /\ inFetch' = inFetch + 1
    /\ started' = started + 1
    /\ UNCHANGED <<variant, sensorData, loading, error, inJson, completed,
                   lastOutcome, lastBatch, prevData, unmountedAt>>
    /\ UNCHANGED raced
    /\ UNCHANGED <<warnVars, colorVars>>

\* a fetchData that begins with setLoading(true)
Tick_setsLoading ==
    /\ timer
    /\ started < MaxPolls
    /\ inFetch + inJson < MaxInflight
    /\ inFetch' = inFetch + 1
    /\ started' = started + 1
    /\ loading' = TRUE
    /\ UNCHANGED <<variant, phase, timer, sensorData, error, inJson,
                   completed, lastOutcome, lastBatch, prevData, unmountedAt>>
    /\ UNCHANGED raced
    /\ UNCHANGED <<warnVars, colorVars>>

\* the interval timer fires: fetchData() is called and suspends at await fetch(...)
Tick ==
    /\ timer
    /\ started < MaxPolls
    /\ inFetch + inJson < MaxInflight
    /\ inFetch' = inFetch + 1
    /\ started' = started + 1
    /\ UNCHANGED <<variant, phase, timer, sensorData, loading, error, inJson,
                   completed, lastOutcome, lastBatch, prevData, unmountedAt>>
    /\ UNCHANGED raced
    /\ UNCHANGED <<warnVars, colorVars>>

\* an effect that returns no cleanup: the interval outlives the view
Unmount_keepsTimer ==
    /\ phase = "mounted"
    /\ phase' = "unmounted"
    /\ unmountedAt' = completed
    /\ UNCHANGED <<variant, timer, sensorData, loading, error, inFetch, inJson,
                   started, completed, lastOutcome, lastBatch, prevData>>
    /\ UNCHANGED raced
    /\ UNCHANGED <<warnVars, colorVars>>

\* effect cleanup: clearInterval(interval); requests in flight are left alone
Unmount ==
    /\ phase = "mounted"
    /\ phase' = "unmounted"
    /\ timer' = FALSE
    /\ unmountedAt' = completed
    /\ UNCHANGED <<variant, sensorData, loading, error, inFetch, inJson, started,
                   completed, lastOutcome, lastBatch, prevData>>
    /\ UNCHANGED raced
    /\ UNCHANGED <<warnVars, colorVars>>

\* a catch block that also resets the history: setSensorData({})
Fail_clearsHistory(message) ==
    /\ error' = message
    /\ loading' = FALSE
    /\ sensorData' = <<>>
    /\ completed' = completed + 1
    /\ lastOutcome' = "fail"
    /\ prevData' = sensorData
    /\ UNCHANGED <<variant, phase, timer, started, lastBatch, unmountedAt>>
    /\ raced' = 0
    /\ UNCHANGED <<warnVars, colorVars>>

\* catch (err) { setError(err.message) } finally { setLoading(false) }
Fail(message) ==
    /\ error' = message
    /\ loading' = FALSE
    /\ completed' = completed + 1
    /\ lastOutcome' = "fail"
    /\ prevData' = sensorData
    /\ UNCHANGED <<variant, phase, timer, sensorData, started, lastBatch, unmountedAt>>
    /\ raced' = 0
    /\ UNCHANGED <<warnVars, colorVars>>

\* await fetch(...) resolves with response.ok true; the call goes on to response.json()
FetchOk ==
    /\ inFetch > 0
    /\ inFetch' = inFetch - 1
    /\ inJson' = inJson + 1
    /\ UNCHANGED <<variant, phase, timer, sensorData, loading, error, started,
                   completed, lastOutcome, lastBatch, prevData, unmountedAt>>
    /\ UNCHANGED raced
    /\ UNCHANGED <<warnVars, colorVars>>

\* await fetch(...) resolves with response.ok false: throw new Error(`HTTP error! ...`)
FetchNotOk(status) ==
    /\ inFetch > 0
    /\ inFetch' = inFetch - 1
    /\ UNCHANGED inJson
    /\ Fail(HttpErrorMessage(status))

\* await fetch(...) rejects
FetchReject ==
    /\ inFetch > 0
    /\ inFetch' = inFetch - 1
    /\ UNCHANGED inJson
    /\ Fail(NetworkErrorMessage)

\* await response.json() rejects: the body is not JSON
JsonReject ==
    /\ inJson > 0
    /\ inJson' = inJson - 1
    /\ UNCHANGED inFetch
    /\ Fail(DecodeErrorMessage)

\* the race history after a response is applied with inflight requests
\* outstanding, the resolving one included
Raced(r, inflight) ==
    IF r = 1 THEN 2 ELSE IF inflight > 1 THEN 1 ELSE 0

\* setSensorData({ ...sensorData, ... }) with the sensorData the effect closed
\* over: the effect runs once, so that is the initial empty map
JsonOk_staleClosure(data) ==
    /\ inJson > 0
    /\ inJson' = inJson - 1
    /\ sensorData' = applyBatch(<<>>, data, variant)
    /\ loading' = FALSE
    /\ completed' = completed + 1
    /\ lastOutcome' = "ok"
    /\ lastBatch' = data
    /\ prevData' = sensorData
    /\ UNCHANGED <<variant, phase, timer, error, inFetch, started, unmountedAt>>
    /\ raced' = Raced(raced, inFetch + inJson)
    /\ UNCHANGED <<warnVars, colorVars>>

\* a success path that ends with setError(null)
JsonOk_clearsError(data) ==
    /\ inJson > 0
    /\ inJson' = inJson - 1
    /\ sensorData' = applyBatch(sensorData, data, variant)
    /\ loading' = FALSE
    /\ error' = Null
    /\ completed' = completed + 1
    /\ lastOutcome' = "ok"
    /\ lastBatch' = data
    /\ prevData' = sensorData
    /\ UNCHANGED <<variant, phase, timer, inFetch, started, unmountedAt>>
    /\ raced' = Raced(raced, inFetch + inJson)
    /\ UNCHANGED <<warnVars, colorVars>>

\* await response.json() resolves with data: setSensorData(prev => ...), then the
\* finally block; both state updates land in the same render
JsonOk(data) ==
    /\ inJson > 0
    /\ inJson' = inJson - 1
    /\ sensorData' = applyBatch(sensorData, data, variant)
    /\ loading' = FALSE
    /\ completed' = completed + 1
    /\ lastOutcome' = "ok"
    /\ lastBatch' = data
    /\ prevData' = sensorData
    /\ UNCHANGED <<variant, phase, timer, error, inFetch, started, unmountedAt>>
    /\ raced' = Raced(raced, inFetch + inJson)
    /\ UNCHANGED <<warnVars, colorVars>>

Next ==
    \/ Mount
    \/ Tick
    \/ Unmount
    \/ FetchOk
    \/ \E status \in BadStatuses : FetchNotOk(status)
    \/ FetchReject
    \/ JsonReject
    \/ \E data \in Batches : JsonOk(data)

Spec == Init /\ [][Next]_vars

\* the de-duplicating revision alone
InitA == Init /\ variant = "A"
SpecA == InitA /\ [][Next]_vars

\* what Home returns (page.tsx 180-196 and 482-496)
View ==
    IF phase = "unmounted" THEN "none"
    ELSE IF loading THEN "loading"
    ELSE IF error # Null THEN "error"
    ELSE "data"

-----------------------------------------------------------------------------
(* Properties of the history store and the poller *)

\* the stored sequence of sensor id in map m, empty when the id is no key of m
History(m, id) == IF id \in DOMAIN m THEN m[id] ELSE <<>>

\* readings of sensor id in array data
CountOf(data, id) == Cardinality({i \in 1..Len(data) : data[i].sensor_id = id})

\* C1: after any sequence of successful and failed polls, with response arrays
\* of any size and content, every sensor's stored sequence has at most 100 readings.
C1_HistoryBounded ==
    \A id \in DOMAIN sensorData : Len(sensorData[id]) <= HistoryCap

\* a successful poll delivered more readings of a sensor than its sequence had room for
C1_Witness ==
    /\ lastOutcome = "ok"
    /\ \E id \in DOMAIN sensorData :
          /\ Len(History(prevData, id)) + CountOf(lastBatch, id) > HistoryCap
          /\ Len(sensorData[id]) = HistoryCap

\* C2: in every sensor's stored sequence no two consecutive readings have the
\* same timestamp; a reading echoed by the next poll is not stored twice.
C2_NoConsecutiveDuplicates ==
    \A id \in DOMAIN sensorData :
        \A i \in 1..(Len(sensorData[id]) - 1) :
            sensorData[id][i].timestamp # sensorData[id][i + 1].timestamp

\* reading is no duplicate of the last stored reading of seq: the sequence is empty
\* or its last timestamp is another instant
NonDuplicate(seq, reading) ==
    \/ seq = <<>>
    \/ seq[Len(seq)].timestamp # toISOString(reading.timestamp)

\* C3: appending a non-duplicate reading keeps the stored readings in arrival
\* order and puts the new one last; a sequence already holding 100 readings loses
\* exactly its first reading and keeps the other 99 unchanged and in order.
C3_AppendEvictsOldest ==
    \A r \in Readings :
        LET old == History(prevData, r.sensor_id)
        IN  (lastOutcome = "ok" /\ lastBatch = <<r>> /\ NonDuplicate(old, r))
            => /\ r.sensor_id \in DOMAIN sensorData
               /\ sensorData[r.sensor_id] =
                     IF Len(old) < HistoryCap
                         THEN old \o <<normalise(r)>>
                         ELSE Tail(old) \o <<normalise(r)>>

\* a non-duplicate reading arrived for a sensor whose sequence was full
C3_Witness ==
    \E r \in Readings :
        /\ lastOutcome = "ok"
        /\ lastBatch = <<r>>
        /\ NonDuplicate(History(prevData, r.sensor_id), r)
        /\ Len(History(prevData, r.sensor_id)) = HistoryCap

\* C4: when a poll fails (non-2xx status, or a body that cannot be decoded) the
\* error message is a non-null string, the history is exactly what it was before
\* that poll, and the view shows the error state, never the data views.
C4_FailedPollKeepsHistory ==
    lastOutcome = "fail"
        => /\ error # Null
           /\ sensorData = prevData
           /\ View # "data"
           /\ phase = "mounted" => View = "error"

\* a poll failed while the view was mounted and held readings
C4_Witness ==
    /\ lastOutcome = "fail"
    /\ phase = "mounted"
    /\ prevData # <<>>
    /\ sensorData = prevData

\* C5: loading is true from mount until the first poll completes, false from
\* then on whether that poll succeeded or failed, and no later poll sets it again.
C5_LoadingUntilFirstCompletion ==
    loading = (completed = 0)

\* two polls have completed, at least one of them failed, and loading is false
C5_Witness ==
    /\ completed >= 2
    /\ error # Null
    /\ ~loading

\* C6: once a poll has failed and error is set, error stays set in every later
\* state, a successful poll that appends readings included, and the view never
\* returns to the data views.
C6_ErrorNeverCleared ==
    [][error # Null => (error' # Null /\ View' # "data")]_vars

\* a successful poll appended readings after the error was set
C6_Witness ==
    /\ error # Null
    /\ lastOutcome = "ok"
    /\ sensorData # prevData

\* C7: unmounting cancels the poll timer, so no poll is started after unmount;
\* requests in flight at unmount are left alone and may still resolve.
C7_NoPollAfterUnmount ==
    [][/\ phase = "unmounted" => (started' = started /\ ~timer /\ ~timer')
       /\ (phase = "mounted" /\ phase' = "unmounted")
             => (~timer' /\ started' = started
                 /\ inFetch' = inFetch /\ inJson' = inJson)]_vars

\* a request in flight at unmount resolved afterwards
C7_Witness ==
    /\ phase = "unmounted"
    /\ unmountedAt >= 0
    /\ completed > unmountedAt

\* the readings of sensor id in array data, in array order, as they are stored
ReadingsOf(data, id) ==
    LET own == SelectSeq(data, LAMBDA r : r.sensor_id = id)
    IN  [i \in 1..Len(own) |-> normalise(own[i])]

\* no reading of `incoming` is at the instant of the reading before it, the
\* last reading of `old` counting as the one before the first
AllFresh(old, incoming) ==
    \A i \in 1..Len(incoming) :
        IF i = 1
            THEN old = <<>> \/ old[Len(old)].timestamp # incoming[1].timestamp
            ELSE incoming[i - 1].timestamp # incoming[i].timestamp

\* seq without its oldest elements, as many as it has beyond n
DropOldest(seq, n) ==
    LET extra == IF Len(seq) > n THEN Len(seq) - n ELSE 0
    IN  [i \in 1..(Len(seq) - extra) |-> seq[i + extra]]

\* `new` is `old` with the incoming readings merged in: all of them, in order,
\* behind the stored ones when none is a duplicate; otherwise at least nothing
\* stored is lost while there is room
Merged(old, incoming, new) ==
    IF AllFresh(old, incoming)
        THEN new = DropOldest(old \o incoming, HistoryCap)
        ELSE Len(old) + Len(incoming) <= HistoryCap
                => /\ Len(new) >= Len(old)
                   /\ SubSeq(new, 1, Len(old)) = old

\* C11: when two requests are in flight at once and their responses resolve in
\* either order, each response is applied as one atomic update to the history as
\* it stands when it resolves: nothing stored by the other response is lost, and
\* the history ends with the non-duplicate readings of both, in order of resolution.
C11_AtomicMerge ==
    [][(completed' = completed + 1 /\ lastOutcome' = "ok")
          => \A id \in Sensors :
                \A incoming \in {ReadingsOf(lastBatch', id)} :
                    Merged(History(sensorData, id), incoming,
                           History(sensorData', id))]_vars

\* two responses that were in flight together have both been applied, and a
\* sensor holds the readings of the first followed by those of the second
C11_Witness ==
    /\ raced = 2
    /\ \E id \in Sensors :
          /\ History(prevData, id) # <<>>
          /\ ReadingsOf(lastBatch, id) # <<>>
          /\ AllFresh(History(prevData, id), ReadingsOf(lastBatch, id))
          /\ History(sensorData, id) = History(prevData, id) \o ReadingsOf(lastBatch, id)

\* C12: every sensor id that is a key of the history map has a non-empty
\* sequence, so readings[readings.length - 1], which the render takes for every
\* key, is defined for every sensor that is rendered.
C12_NoEmptyHistory ==
    \A id \in DOMAIN sensorData :
        /\ sensorData[id] # <<>>
        /\ sensorData[id][Len(sensorData[id])] \in Readings

\* the data views are rendered with one sensor that has just got its first
\* reading, the other sensor being no key yet
C12_Witness ==
    /\ View = "data"
    /\ lastOutcome = "ok"
    /\ \E id \in DOMAIN sensorData :
          /\ id \notin DOMAIN prevData
          /\ Len(sensorData[id]) = 1
          /\ DOMAIN sensorData # Sensors

\* C13: applying a response changes only the sequences of the sensors whose ids
\* occur in it; every other sensor's sequence is left as it was, and no sensor
\* id is ever removed from the history map.
C13_FrameOfBatch ==
    [][/\ DOMAIN sensorData \subseteq DOMAIN sensorData'
       /\ \A id \in Sensors :
             (\/ ~(completed' = completed + 1 /\ lastOutcome' = "ok")
              \/ CountOf(lastBatch', id) = 0)
                => /\ (id \in DOMAIN sensorData') = (id \in DOMAIN sensorData)
                   /\ History(sensorData', id) = History(sensorData, id)]_vars

\* a response about one sensor only was applied while the other sensor held
\* readings, which are still there
C13_Witness ==
    /\ lastOutcome = "ok"
    /\ \E id \in Sensors, other \in Sensors :
          /\ id # other
          /\ CountOf(lastBatch, id) > 0
          /\ CountOf(lastBatch, other) = 0
          /\ History(sensorData, id) # History(prevData, id)
          /\ History(prevData, other) # <<>>
          /\ History(sensorData, other) = History(prevData, other)

-----------------------------------------------------------------------------
(* The classifier getStatusColor.  Metric values are fixed-point numbers in      *)
(* hundredths of their unit: 25 degrees is 2500, 1000 ppm is 100000.             *)

MetricTypes == {"temperature", "co2", "humidity", "noise", "aqi", "light"}

\* values on, just below and just above every threshold of the classifier
ColorValues ==
    {399, 400, 401, 699, 700, 701, 1799, 1800, 1801, 2499, 2500, 2501,
     2999, 3000, 3001, 3499, 3500, 3501, 4999, 5000, 5001, 6999, 7000, 7001,
     79999, 80000, 80001, 99999, 100000, 100001}

\* the class names of the two revisions
Red == "text-red-500"
Blue == "text-blue-500"
Ok(v) == IF v = "A" THEN "text-emerald-500" ELSE "text-green-500"
Caution(v) == IF v = "A" THEN "text-amber-500" ELSE "text-yellow-500"
Neutral(v) == IF v = "A" THEN "text-slate-700" ELSE "text-gray-700"

\* a classifier whose upper temperature test is value >= 25
getStatusColor_inclusive(value, type, v) ==
    CASE type = "temperature" ->
            IF value >= 2500 THEN Red ELSE IF value < 1800 THEN Blue ELSE Ok(v)
      [] type = "co2" ->
            IF value > 100000 THEN Red ELSE IF value > 80000 THEN Caution(v) ELSE Ok(v)
      [] type = "humidity" ->
            IF value > 7000 THEN Red ELSE IF value < 3000 THEN Caution(v) ELSE Ok(v)
      [] type = "noise" ->
            IF value > 7000 THEN Red ELSE IF value > 5000 THEN Caution(v) ELSE Ok(v)
      [] type = "aqi" ->
            IF value >= 700 THEN Ok(v) ELSE IF value >= 400 THEN Caution(v) ELSE Red
      [] OTHER -> Neutral(v)

\* getStatusColor (page.tsx 46-61 and 380-395)
getStatusColor(value, type, v) ==
    CASE type = "temperature" ->
            IF value > 2500 THEN Red ELSE IF value < 1800 THEN Blue ELSE Ok(v)
      [] type = "co2" ->
            IF value > 100000 THEN Red ELSE IF value > 80000 THEN Caution(v) ELSE Ok(v)
      [] type = "humidity" ->
            IF value > 7000 THEN Red ELSE IF value < 3000 THEN Caution(v) ELSE Ok(v)
      [] type = "noise" ->
            IF value > 7000 THEN Red ELSE IF value > 5000 THEN Caution(v) ELSE Ok(v)
      [] type = "aqi" ->
            IF value >= 700 THEN Ok(v) ELSE IF value >= 400 THEN Caution(v) ELSE Red
      [] OTHER -> Neutral(v)

\* the classifier is about to be called with some value and metric type
InitColor ==
    /\ PollerInit
    /\ WarnIdle
    /\ colorValue \in ColorValues
    /\ colorType \in MetricTypes
    /\ colorResult = "none"

\* the call getStatusColor(value, type), as made for each metric card
Classify ==
    /\ colorResult = "none"
    /\ colorType \in MetricTypes
    /\ colorResult' = getStatusColor(colorValue, colorType, variant)
    /\ UNCHANGED <<colorValue, colorType, pollerVars, warnVars>>

NextColor == Classify

SpecColor == InitColor /\ [][NextColor]_vars

\* the band a class name stands for
Band(class) ==
    CASE class = Red -> "red"
      [] class = Blue -> "blue"
      [] class \in {"text-amber-500", "text-yellow-500"} -> "amber"
      [] class \in {"text-emerald-500", "text-green-500"} -> "green"
      [] OTHER -> "neutral"

\* C10 as stated: four temperature bands, above 35 red, above 25 and up to 35
\* amber, below 18 blue, everything else green; 35.0 is amber and 25.0 is green.
C10_FourBands ==
    (colorType = "temperature" /\ colorResult # "none")
        => Band(colorResult) =
              IF colorValue > 3500 THEN "red"
              ELSE IF colorValue > 2500 THEN "amber"
              ELSE IF colorValue < 1800 THEN "blue"
              ELSE "green"

\* C10 as amended: three temperature bands, above 25 red, below 18 blue,
\* everything else (18 to 25 inclusive) green; 35.0 is red and 25.0 is green.
C10_ThreeBands ==
    (colorType = "temperature" /\ colorResult # "none")
        => Band(colorResult) =
              IF colorValue > 2500 THEN "red"
              ELSE IF colorValue < 1800 THEN "blue"
              ELSE "green"

\* the boundary 35.0 has been classified, and is red
C10_Witness ==
    /\ colorType = "temperature"
    /\ colorValue = 3500
    /\ Band(colorResult) = "red"

-----------------------------------------------------------------------------
(* The warning tracker of the revision with the notification panel (revision     *)
(* "C"), after sections 3, 4.3 and 8 of the specification.  Metric values are    *)
(* in hundredths of their unit, times in ms.                                     *)

MaxAdvances == 3             \* clock advances in one run

TempThreshold == 3500        \* temperature > 35.0
Co2Threshold == 100000       \* co2_level > 1000
RetentionMs == 3600000       \* retention window, one hour
WarningCap == 50             \* size cap of the feed
PollPeriod == 5000           \* poll timer, 5 s
SweepPeriod == 60000         \* sweep timer, 60 s

\* value.toFixed(1) and value.toFixed(0) of a value given in hundredths
toFixed1(value) ==
    LET tenths == (value + 5) \div 10
    IN  ToString(tenths \div 10) \o "." \o ToString(tenths % 10)

toFixed0(value) == ToString((value + 50) \div 100)

temperatureWarning(reading, ts) ==
    [id |-> <<"temperature", reading.sensor_id, ts>>,
     sensorId |-> reading.sensor_id,
     message |-> "High temperature alert: " \o toFixed1(reading.temperature) \o "°C",
     timestamp |-> ts,
     type |-> "temperature",
     value |-> reading.temperature]

co2Warning(reading, ts) ==
    [id |-> <<"co2", reading.sensor_id, ts>>,
     sensorId |-> reading.sensor_id,
     message |-> "High CO2 alert: " \o toFixed0(reading.co2_level) \o " ppm",
     timestamp |-> ts,
     type |-> "co2",
     value |-> reading.co2_level]

\* threshold tests that include the boundary
evaluateReading_inclusive(reading, ts) ==
    (IF reading.temperature >= TempThreshold
        THEN <<temperatureWarning(reading, ts)>> ELSE <<>>)
    \o (IF reading.co2_level >= Co2Threshold
        THEN <<co2Warning(reading, ts)>> ELSE <<>>)

\* the two threshold tests on one reading, temperature first
evaluateReading(reading, ts) ==
    (IF reading.temperature > TempThreshold
        THEN <<temperatureWarning(reading, ts)>> ELSE <<>>)
    \o (IF reading.co2_level > Co2Threshold
        THEN <<co2Warning(reading, ts)>> ELSE <<>>)

\* the warnings of data[lo..hi] in array order, first half then second half
RECURSIVE evaluateRange(_, _, _, _)
evaluateRange(data, lo, hi, ts) ==
    IF lo > hi THEN <<>>
    ELSE IF lo = hi THEN evaluateReading(data[lo], ts)
    ELSE LET mid == (lo + hi) \div 2
         IN  evaluateRange(data, lo, mid, ts) \o evaluateRange(data, mid + 1, hi, ts)

\* evaluate(batch) -> Warning[]: every warning of one cycle carries the same ts
evaluate(data, ts) == evaluateRange(data, 1, Len(data), ts)

\* a warning is kept while its age is strictly less than the retention window
Fresh(w, t) == t - w.timestamp < RetentionMs

\* a sweep that filters by age only
sweep_noCap(feed, t) == SelectSeq(feed, LAMBDA w : Fresh(w, t))

\* sweep(feed) -> Warning[]: age filter, then the last 50 of the survivors
sweep(feed, t) == slice(SelectSeq(feed, LAMBDA w : Fresh(w, t)), WarningCap)

\* what a response can hold for the tracker: a sensor, a temperature and a co2
\* level on or above each threshold
WarnSensors == {"sensor1", "sensor2"}
TempValues == {TempThreshold, TempThreshold + 10}
Co2Values == {Co2Threshold, Co2Threshold + 100}
WarnReadings == [sensor_id : WarnSensors, temperature : TempValues, co2_level : Co2Values]

\* n sensors, sensor1 .. sensorn, all too hot at once
Flood(n) ==
    [i \in 1..n |-> [sensor_id |-> "sensor" \o ToString(i),
                     temperature |-> TempThreshold + 10,
                     co2_level |-> Co2Threshold]]

WarnBatches ==
    {<<r>> : r \in WarnReadings} \cup {Flood(WarningCap - 1), Flood(WarningCap + 1)}

\* time that passes between two events: a poll period, a sweep period, a
\* sweep period short of the retention window
Deltas == {PollPeriod, SweepPeriod, RetentionMs - SweepPeriod}

InitWarn ==
    /\ variant = "C"
    /\ PollerIdle
    /\ ColorIdle
    /\ WarnIdle

\* a poll cycle delivers data: its warnings are merged into the feed, then swept
WarnPoll(data) ==
    /\ warnPolls < MaxPolls
    /\ warnPolls' = warnPolls + 1
    /\ lastReadings' = data
    /\ lastEmitted' = evaluate(data, now)
    /\ warnings' = sweep(warnings \o evaluate(data, now), now)
    /\ UNCHANGED <<now, clockSteps, pollerVars, colorVars>>

\* the 60 s sweep timer fires
SweepTick ==
    /\ warnings' = sweep(warnings, now)
    /\ UNCHANGED <<now, clockSteps, warnPolls, lastReadings, lastEmitted,
                   pollerVars, colorVars>>

\* time passes
Advance(d) ==
    /\ clockSteps < MaxAdvances
    /\ clockSteps' = clockSteps + 1
    /\ now' = now + d
    /\ UNCHANGED <<warnings, warnPolls, lastReadings, lastEmitted,
                   pollerVars, colorVars>>

NextWarn ==
    \/ \E data \in WarnBatches : WarnPoll(data)
    \/ SweepTick
    \/ \E d \in Deltas : Advance(d)

SpecWarn == InitWarn /\ [][NextWarn]_vars

\* C8: in every reachable state, after any sequence of poll cycles and
\* sweep-timer ticks, the warning feed holds at most 50 warnings.
C8_FeedBounded ==
    Len(warnings) <= WarningCap

\* one poll cycle emitted more warnings than the feed may hold
C8_Witness ==
    /\ Len(lastEmitted) > WarningCap
    /\ Len(warnings) = WarningCap

\* warnings of the given type emitted for the given sensor by the last cycle
Emitted(type, id) ==
    Cardinality({i \in 1..Len(lastEmitted) :
                    lastEmitted[i].type = type /\ lastEmitted[i].sensorId = id})

\* C9: a poll cycle emits, for each reading on its own, a temperature warning
\* exactly when temperature > 35.0 and a co2 warning exactly when co2_level >
\* 1000; a reading at exactly 35.0 or exactly 1000 emits nothing for that metric,
\* and a reading that breaches both emits both.
C9_StrictThresholds ==
    /\ \A i \in 1..Len(lastReadings) :
          LET r == lastReadings[i]
          IN  /\ Emitted("temperature", r.sensor_id)
                    = IF r.temperature > TempThreshold THEN 1 ELSE 0
              /\ Emitted("co2", r.sensor_id)
                    = IF r.co2_level > Co2Threshold THEN 1 ELSE 0
    /\ \A j \in 1..Len(lastEmitted) :
          \E i \in 1..Len(lastReadings) :
              /\ lastEmitted[j].sensorId = lastReadings[i].sensor_id
              /\ lastEmitted[j].value =
                    IF lastEmitted[j].type = "temperature"
                        THEN lastReadings[i].temperature
                        ELSE lastReadings[i].co2_level

\* a reading at exactly 35.0 with a co2 breach emitted the co2 warning alone
C9_Witness ==
    /\ Len(lastReadings) = 1
    /\ lastReadings[1].temperature = TempThreshold
    /\ lastReadings[1].co2_level > Co2Threshold
    /\ Len(lastEmitted) = 1
    /\ lastEmitted[1].type = "co2"

====
